---- MODULE Spec2Model ----
(***************************************************************************)
(* Model of the compressed JSON codec: the base-offset varint              *)
(* (src/varint.rs), the wire codec and JSON bridge (src/encoded_data.rs)   *)
(* and the header tags (src/define), and the string cache of the           *)
(* streaming compressor (src/stream_compressor.rs).                        *)
(*                                                                         *)
(* u64 values are little-endian bit vectors (sequences of 0/1, bit 0       *)
(* first), so that shifts, masks, wrapping and carries are those of the    *)
(* 64-bit machine words of the program.  Bytes are naturals in 0..255.     *)
(***************************************************************************)
EXTENDS Integers, Sequences, FiniteSets, TLC

VARIABLES
    build,      \* "debug" (overflow and unsafe-precondition checks) or "release"
    pc,         \* the operation that ran last
    src,        \* how the buffer in data was produced
    n,          \* the u64 given to varint::encode
    object,     \* the EncodedData given to encode / to the JSON bridge
    json,       \* the serde_json::Value given to / returned by the JSON bridge
    wire,       \* the bytes an encoder returned or a caller received
    data,       \* the byte slice handed to a decoder: [mem, len]
    result,     \* what the last operation returned
    conf,       \* the Conf the StreamCompressor was made with
    cache,      \* the Cache of the StreamCompressor
    before      \* the Cache as it was when the last call began

vars == <<build, pc, src, n, object, json, wire, data, result, conf, cache, before>>

----------------------------------------------------------------------------
(* Bounds of the model *)

\* how far around each boundary value the sampled integers spread
Spread == 1
\* how many bytes of foreign memory may lie behind a buffer
MaxTail == 2
\* the largest max_cache and max_future_cache a StreamCompressor is made with
MaxCache == 1
MaxFutureCache == 2
\* how often a tracked string is looked up again
MaxUse == 2

----------------------------------------------------------------------------
(* Machine words *)

U64_BITS == 64

Bits(x, w) == [i \in 1..w |-> IF i <= 31 THEN (x \div (2 ^ (i - 1))) % 2 ELSE 0]
U64(x) == Bits(x, U64_BITS)
Pow2(k) == [i \in 1..U64_BITS |-> IF i = k + 1 THEN 1 ELSE 0]
AllOnes(w) == [i \in 1..w |-> 1]
U64_MAX == AllOnes(U64_BITS)

\* zero-extension or truncation to w bits (the `as` casts between widths)
Ext(a, w) == [i \in 1..w |-> IF i <= Len(a) THEN a[i] ELSE 0]

Fits31(a) == \A i \in 1..Len(a) : i >= 31 => a[i] = 0

\* the unsigned value of bits lo..hi of a word
RECURSIVE NatFrom(_, _, _)
NatFrom(a, lo, hi) ==
    IF lo = hi THEN a[lo]
    ELSE NatFrom(a, lo, (lo + hi) \div 2)
         + (IF \A i \in ((lo + hi) \div 2 + 1)..hi : a[i] = 0 THEN 0
            ELSE (2 ^ ((lo + hi) \div 2 - lo + 1)) * NatFrom(a, (lo + hi) \div 2 + 1, hi))

ToNat(a) == IF a = <<>> THEN 0 ELSE NatFrom(a, 1, Len(a))

Lt(a, b) == \E i \in 1..Len(a) : /\ a[i] < b[i]
                                 /\ \A j \in (i + 1)..Len(a) : a[j] = b[j]
Le(a, b) == a = b \/ Lt(a, b)

\* ripple-carry addition and subtraction, a byte at a time, from bit i on
\* with carry or borrow c in
RECURSIVE AddFrom(_, _, _, _), SubFrom(_, _, _, _), CarryFrom(_, _, _, _)
AddFrom(a, b, i, c) ==
    LET byte(sum) == Bits(sum % 256, 8) \o AddFrom(a, b, i + 8, sum \div 256)
    IN  IF i > Len(a) THEN <<>>
        ELSE byte(NatFrom(a, i, i + 7) + NatFrom(b, i, i + 7) + c)
SubFrom(a, b, i, c) ==
    LET byte(diff) ==
            Bits((diff + 256) % 256, 8) \o SubFrom(a, b, i + 8, IF diff < 0 THEN 1 ELSE 0)
    IN  IF i > Len(a) THEN <<>>
        ELSE byte(NatFrom(a, i, i + 7) - NatFrom(b, i, i + 7) - c)
CarryFrom(a, b, i, c) ==
    IF i > Len(a) THEN c
    ELSE CarryFrom(a, b, i + 8, (NatFrom(a, i, i + 7) + NatFrom(b, i, i + 7) + c) \div 256)

\* wrapping addition and its carry out
AddCarry(a, b) == CarryFrom(a, b, 1, 0)
Add(a, b) == AddFrom(a, b, 1, 0)
\* wrapping subtraction
Sub(a, b) == SubFrom(a, b, 1, 0)

Shr(a, k) == [i \in 1..Len(a) |-> IF i + k <= Len(a) THEN a[i + k] ELSE 0]
Shl(a, k) == [i \in 1..Len(a) |-> IF i - k >= 1 THEN a[i - k] ELSE 0]
BitOr(a, b) == [i \in 1..Len(a) |-> IF a[i] = 1 \/ b[i] = 1 THEN 1 ELSE 0]
BitAnd(a, b) == [i \in 1..Len(a) |-> IF a[i] = 1 /\ b[i] = 1 THEN 1 ELSE 0]

\* the low byte of a word (`as u8`)
LowByte(a) == ToNat(SubSeq(a, 1, 8))

Min(x, y) == IF x < y THEN x ELSE y

----------------------------------------------------------------------------
(* Slices.  A slice is the memory from its pointer on (mem) and its length *)
(* (len).  mem may be longer than len: the bytes behind the slice are what *)
(* an unchecked read past its end finds.  A negative len stands for the    *)
(* wrapped length 2^64 + len of a slice cut past its end.                  *)

Slice(bytes) == [mem |-> bytes, len |-> Len(bytes)]
\* data.get_unchecked(k..)
From(d, k) == [mem |-> SubSeq(d.mem, k + 1, Len(d.mem)), len |-> d.len - k]
\* data.len() < x, for a small x
LenLt(d, x) == d.len >= 0 /\ d.len < x
\* the first k bytes behind the pointer are mapped memory
Mapped(d, k) == k <= Len(d.mem)
\* the first k bytes behind the pointer are inside the slice
Inside(d, k) == d.len < 0 \/ k <= d.len

----------------------------------------------------------------------------
(* Results *)

Ok(v, size) == [kind |-> "Ok", value |-> v, size |-> size]
Err(name, arg) == [kind |-> "Err", error |-> name, arg |-> arg]
\* the thread panicked (a failed check of the build or of the library)
Panic == [kind |-> "Panic"]
\* an unchecked read left the mapped memory
Fault == [kind |-> "Fault"]

\* an unchecked access outside its slice: the debug build's precondition
\* check aborts, the release build goes on to read what lies there
Unchecked(b, ok, k) == IF ok THEN k ELSE IF b = "debug" THEN Panic ELSE k
\* an arithmetic overflow: the debug build panics, the release build wraps
Overflow(b, overflowed, k) == IF overflowed /\ b = "debug" THEN Panic ELSE k

----------------------------------------------------------------------------
(* src/varint.rs *)

LIMITS == <<Pow2(7), Pow2(14), Pow2(21), Pow2(28), Pow2(35),
            Pow2(42), Pow2(49), Pow2(56), Pow2(63)>>

RECURSIVE BaseValue(_)
BaseValue(k) == IF k = 0 THEN U64(0) ELSE Add(BaseValue(k - 1), LIMITS[k])
\* BASE_VALUE[k] of the source is BASE_VALUE[k + 1] here
BASE_VALUE == [k \in 1..(Len(LIMITS) + 1) |-> BaseValue(k - 1)]

std_encode(x, nb_bytes) ==
    [i \in 1..nb_bytes |->
        ToNat(SubSeq(Shr(x, 7 * (i - 1)), 1, 7)) + (IF i < nb_bytes THEN 128 ELSE 0)]

\* the loop without `n -= limit`: plain LEB128
RECURSIVE varint_encode_plain(_, _)
varint_encode_plain(x, k) ==
    IF k > Len(LIMITS) THEN std_encode(x, Len(LIMITS) + 1)
    ELSE IF Lt(x, LIMITS[k]) THEN std_encode(x, k)
    ELSE varint_encode_plain(x, k + 1)

\* the loop of encode from LIMITS[k] on (1-based)
RECURSIVE varint_encode_from(_, _)
varint_encode_from(x, k) ==
    IF k > Len(LIMITS) THEN std_encode(x, Len(LIMITS) + 1)
    ELSE IF Lt(x, LIMITS[k]) THEN std_encode(x, k)
    ELSE varint_encode_from(Sub(x, LIMITS[k]), k + 1)

varint_encode(x) == varint_encode_from(x, 1)

\* the loop of std_decode from byte index i (1-based) with accumulator ret
RECURSIVE std_decode_from(_, _, _, _)
std_decode_from(b, d, i, ret) ==
    IF i > Len(LIMITS) + 1 \/ ~Inside(d, i)
    THEN IF ~LenLt(d, Len(LIMITS) + 2) THEN Err("ValueTooBig", 0)
         ELSE Err("MissingBytes", 0)
    ELSE IF ~Mapped(d, i) THEN Fault
    ELSE LET part == d.mem[i]
             acc == BitOr(ret, Shl(U64(part % 128), 7 * (i - 1)))
         IN  IF part \div 128 = 0 THEN Ok(acc, i)
             ELSE std_decode_from(b, d, i + 1, acc)

std_decode(b, d) == std_decode_from(b, d, 1, U64(0))

\* decode without the BASE_VALUE offset
varint_decode_no_base(b, d) == std_decode(b, d)

varint_decode(b, d) ==
    LET offset(r) ==
            IF r.kind # "Ok" THEN r
            ELSE Overflow(b, AddCarry(r.value, BASE_VALUE[r.size]) = 1,
                          Ok(Add(r.value, BASE_VALUE[r.size]), r.size))
    IN  offset(std_decode(b, d))

----------------------------------------------------------------------------
(* src/define/data_type.rs, src/define/special_type.rs *)

data_type_SPECIAL == 0
data_type_INTEGER == 1
data_type_FLOAT == 2
data_type_STRING == 3
data_type_ARRAY == 4
data_type_OBJECT == 5
data_type_ALIAS == 6

special_type_NONE == 0
special_type_NULL == 1
special_type_DEFINE == 2
special_type_FORGET == 3

\* DataType::from has no arm for data_type_ALIAS
DataType_from(t) ==
    CASE t = data_type_SPECIAL -> "Special"
      [] t = data_type_INTEGER -> "Integer"
      [] t = data_type_FLOAT -> "Float"
      [] t = data_type_STRING -> "String"
      [] t = data_type_ARRAY -> "Array"
      [] t = data_type_OBJECT -> "Object"
      [] OTHER -> "none"

SpecialType_from(t) ==
    CASE t = special_type_NONE -> "None"
      [] t = special_type_NULL -> "Null"
      [] t = special_type_DEFINE -> "Define"
      [] t = special_type_FORGET -> "Forget"
      [] OTHER -> "none"

----------------------------------------------------------------------------
(* src/encoded_data.rs: the value model *)

SpecialNone == [type |-> "Special", special |-> "None"]
SpecialNull == [type |-> "Special", special |-> "Null"]
Define(o) == [type |-> "Special", special |-> "Define", inner |-> o]
Forget(id) == [type |-> "Special", special |-> "Forget", id |-> id]
Positive(x) == [type |-> "Integer", integer |-> "Positive", magnitude |-> x]
Negative(x) == [type |-> "Integer", integer |-> "Negative", magnitude |-> x]
Bool(b) == [type |-> "Integer", integer |-> "Bool", b |-> b]
\* an f64 is its 64 IEEE-754 bits
Float(f) == [type |-> "Float", f |-> f]
\* a String is its bytes
String(s) == [type |-> "String", s |-> s]
Array(list) == [type |-> "Array", list |-> list]
\* a HashMap is a function from keys to values
Object(map) == [type |-> "Object", map |-> map]
Alias(id) == [type |-> "Alias", id |-> id]

EmptyMap == [k \in {} |-> SpecialNull]
\* an insert that keeps the value a key already has
InsertKeepFirst(map, k, o) ==
    IF k \in DOMAIN map THEN map
    ELSE [x \in (DOMAIN map) \cup {k} |-> IF x = k THEN o ELSE map[x]]

\* HashMap::insert: the new value replaces the one the key had
Insert(map, k, o) == [x \in (DOMAIN map) \cup {k} |-> IF x = k THEN o ELSE map[x]]

\* to_le_bytes / from_le_bytes
ToLeBytes(x, k) == [i \in 1..k |-> ToNat(SubSeq(x, 8 * (i - 1) + 1, 8 * i))]
FromLeBytes(bytes) ==
    [i \in 1..U64_BITS |->
        IF (i - 1) \div 8 < Len(bytes)
        THEN (bytes[((i - 1) \div 8) + 1] \div (2 ^ ((i - 1) % 8))) % 2
        ELSE 0]

\* the bytes a UTF-8 sequence has by its first byte, 0 for a byte that
\* cannot start one
Utf8Width(c) ==
    CASE c \in 0..127 -> 1
      [] c \in 194..223 -> 2
      [] c \in 224..239 -> 3
      [] c \in 240..244 -> 4
      [] OTHER -> 0

\* the second byte a first byte allows (no overlong forms, no surrogates,
\* nothing above U+10FFFF)
Utf8Second(c) ==
    CASE c = 224 -> 160..191
      [] c = 237 -> 128..159
      [] c = 240 -> 144..191
      [] c = 244 -> 128..143
      [] OTHER -> 128..191

\* std::str::from_utf8 accepts exactly the well-formed UTF-8 byte sequences:
\* every byte starts a complete sequence or continues the one begun before it
Utf8Valid(s) ==
    \A p \in 1..Len(s) :
        IF s[p] \in 128..191
        THEN \E q \in 1..3 : p - q >= 1 /\ Utf8Width(s[p - q]) > q
        ELSE /\ Utf8Width(s[p]) > 0
             /\ p + Utf8Width(s[p]) - 1 <= Len(s)
             /\ Utf8Width(s[p]) >= 2 => s[p + 1] \in Utf8Second(s[p])
             /\ \A i \in 2..(Utf8Width(s[p]) - 1) : s[p + i] \in 128..191

----------------------------------------------------------------------------
(* src/encoded_data.rs: encode *)

\* the comparisons taken strictly: 0xFF, 0xFFFF and 0xFFFFFFFF get the next width
encode_compact_u64_strict(x) ==
    IF Lt(x, U64(255)) THEN ToLeBytes(x, 1)
    ELSE IF Lt(x, U64(65535)) THEN ToLeBytes(x, 2)
    ELSE IF Lt(x, Ext(AllOnes(32), U64_BITS)) THEN ToLeBytes(x, 4)
    ELSE ToLeBytes(x, 8)

encode_compact_u64(x) ==
    IF Le(x, U64(255)) THEN ToLeBytes(x, 1)
    ELSE IF Le(x, U64(65535)) THEN ToLeBytes(x, 2)
    ELSE IF ~Lt(Ext(AllOnes(32), U64_BITS), x) THEN ToLeBytes(x, 4)
    ELSE ToLeBytes(x, 8)

\* the pair (flag, bytes) as [flag, data]
encode_data_type_length(x, max_flag_bit) ==
    LET max_flag_size == 2 ^ (max_flag_bit - 1)
        flag_mask == (max_flag_size \div 2) - 1
        continue_flag == 2 ^ (max_flag_bit - 1)
        rest == Sub(x, U64(max_flag_size))
    IN  IF Lt(x, U64(max_flag_size)) THEN [flag |-> LowByte(x), data |-> <<>>]
        ELSE [flag |-> LowByte(BitAnd(rest, U64(flag_mask))) + continue_flag,
              data |-> varint_encode(Shr(rest, max_flag_bit - 1))]

\* The set of byte sequences encode can return: one for each order in which
\* the HashMaps of the value can be iterated.
RECURSIVE encode(_), encode_list(_), encode_entries(_, _)
encode(o) ==
    CASE o.type = "Special" ->
           (CASE o.special = "None" -> {<<data_type_SPECIAL * 32 + special_type_NONE>>}
              [] o.special = "Null" -> {<<data_type_SPECIAL * 32 + special_type_NULL>>}
              [] o.special = "Define" ->
                   {<<data_type_SPECIAL * 32 + special_type_DEFINE>> \o e : e \in encode(o.inner)}
              [] o.special = "Forget" ->
                   {<<data_type_SPECIAL * 32 + special_type_FORGET>> \o varint_encode(o.id)})
      [] o.type = "Integer" ->
           (CASE o.integer = "Positive" ->
                   LET encoded == encode_compact_u64(o.magnitude)
                   IN  {<<data_type_INTEGER * 32 + Len(encoded)>> \o encoded}
              [] o.integer = "Negative" ->
                   LET encoded == encode_compact_u64(o.magnitude)
                   IN  {<<data_type_INTEGER * 32 + 16 + Len(encoded)>> \o encoded}
              [] o.integer = "Bool" ->
                   {<<data_type_INTEGER * 32 + (IF o.b THEN 1 ELSE 0) * 16>>})
      [] o.type = "Float" -> {<<data_type_FLOAT * 32 + 8>> \o ToLeBytes(o.f, 8)}
      [] o.type = "String" ->
           LET l == encode_data_type_length(U64(Len(o.s)), 5)
           IN  {<<data_type_STRING * 32 + l.flag>> \o l.data \o o.s}
      [] o.type = "Array" ->
           LET l == encode_data_type_length(U64(Len(o.list)), 5)
           IN  {<<data_type_ARRAY * 32 + l.flag>> \o l.data \o e : e \in encode_list(o.list)}
      [] o.type = "Object" ->
           LET l == encode_data_type_length(U64(Cardinality(DOMAIN o.map)), 5)
           IN  {<<data_type_OBJECT * 32 + l.flag>> \o l.data \o e :
                    e \in encode_entries(o.map, DOMAIN o.map)}
      [] o.type = "Alias" ->
           LET l == encode_data_type_length(o.id, 5)
           IN  {<<data_type_ALIAS * 32 + l.flag>> \o l.data}

encode_list(list) ==
    IF list = <<>> THEN {<<>>}
    ELSE {e \o rest : e \in encode(Head(list)), rest \in encode_list(Tail(list))}

encode_entries(map, keys) ==
    IF keys = {} THEN {<<>>}
    ELSE UNION {{varint_encode(U64(Len(k))) \o k \o e \o rest :
                    e \in encode(map[k]), rest \in encode_entries(map, keys \ {k})} :
                k \in keys}

----------------------------------------------------------------------------
(* src/encoded_data.rs: decode *)

MissingBytes(k) == Err("MissingBytes", k)

\* slice.len() as a usize word
LenU64(d) == IF d.len >= 0 THEN U64(d.len) ELSE Sub(U64(0), U64(0 - d.len))

\* The match on the result of varint::decode that every caller repeats.
varint_field(b, d) ==
    LET map_err(r) ==
            IF r.kind = "Err"
            THEN (IF r.error = "MissingBytes" THEN MissingBytes(U64(1))
                  ELSE Err("VarintTooBig", <<>>))
            ELSE r
    IN  map_err(varint_decode(b, d))

\* size 1, 2 and 4 read that many bytes, every other size reads 8
decode_compact_u64(b, d, size) ==
    LET width == IF size \in {1, 2, 4} THEN size ELSE 8
    IN  IF ~Inside(d, width) /\ b = "debug" THEN Panic
        ELSE IF ~Mapped(d, width) THEN Fault
        ELSE Ok(FromLeBytes(SubSeq(d.mem, 1, width)), width)

\* The length field of String, Array and Object: Ok(length, size) with the
\* length as a usize word and size the bytes of header and continuation.
decode_length(b, d, ctrl) ==
    LET length == ctrl % 16
        length_continue == (ctrl \div 16) % 2 = 1
        plus16(joined, size) ==
            Overflow(b, AddCarry(joined, U64(16)) = 1, Ok(Add(joined, U64(16)), size))
        continued(head) ==
            IF head.kind # "Ok" THEN head
            ELSE plus16(BitOr(Shl(head.value, 4), U64(length)), 1 + head.size)
    IN  IF ~length_continue THEN Ok(U64(length), 1)
        ELSE continued(varint_field(b, From(d, 1)))

\* the id field of Alias
decode_alias_id(b, d, ctrl) ==
    LET id == ctrl % 16
        id_continue == (ctrl \div 16) % 2 = 1
        continued(head) ==
            IF head.kind # "Ok" THEN head
            ELSE Ok(BitOr(Shl(head.value, 3), U64(id)), 1 + head.size)
    IN  IF ~id_continue THEN Ok(U64(id), 1)
        ELSE continued(varint_field(b, From(d, 1)))

\* a loop `for _ in 0..length` over items of at least one byte each ends with
\* an error once the mapped memory is used up, whatever length says
Rounds(length, d) ==
    IF Fits31(length) THEN Min(ToNat(length), Len(d.mem) + 1) ELSE Len(d.mem) + 1

\* clone_from_slice panics unless the rest of the slice is exactly 8 bytes
decode_float(b, d) ==
    IF d.len - 1 # 8 THEN Panic
    ELSE Ok(Float(FromLeBytes(SubSeq(d.mem, 2, 9))), 9)

\* the payload is taken with get_unchecked, without a look at data.len()
decode_string(b, d, ctrl) ==
    LET text(payload, end) ==
            IF ~Utf8Valid(payload) THEN Err("BadUtf8", <<>>)
            ELSE Ok(String(payload), end)
        read(l, end) ==
            IF ~Inside(d, end) /\ b = "debug" THEN Panic
            ELSE IF ~Mapped(d, end) THEN Fault
            ELSE text(SubSeq(d.mem, l.size + 1, end), end)
        sized(l) ==
            IF l.kind # "Ok" THEN l
            ELSE IF ~Fits31(l.value) THEN (IF b = "debug" THEN Panic ELSE Fault)
            ELSE read(l, l.size + ToNat(l.value))
    IN  sized(decode_length(b, d, ctrl))

RECURSIVE decode(_, _), decode_items(_, _, _, _, _), decode_entries(_, _, _, _, _)

decode_special(b, d, ctrl) ==
    LET special_type_value == ctrl % 32
        define(r) == IF r.kind # "Ok" THEN r ELSE Ok(Define(r.value), 1 + r.size)
        forget(r) == IF r.kind # "Ok" THEN r ELSE Ok(Forget(r.value), 1 + r.size)
        arm(special_type) ==
            CASE special_type = "none" ->
                   Err("UnknownSpecialType", U64(special_type_value))
              [] special_type = "None" -> Ok(SpecialNone, 1)
              [] special_type = "Null" -> Ok(SpecialNull, 1)
              [] special_type = "Define" ->
                   IF LenLt(d, 2) THEN MissingBytes(U64(1))
                   ELSE define(decode(b, From(d, 1)))
              [] special_type = "Forget" -> forget(varint_field(b, From(d, 1)))
    IN  arm(SpecialType_from(special_type_value))

decode_integer(b, d, ctrl) ==
    LET length == ctrl % 16
        negative == (ctrl \div 16) % 2 = 1
        signed(r) ==
            IF r.kind # "Ok" THEN r
            ELSE IF negative THEN Ok(Negative(r.value), 1 + length)
            ELSE Ok(Positive(r.value), 1 + length)
    IN  IF length = 0 THEN Ok(Bool(negative), 1)
        ELSE IF LenLt(d, 1 + length) THEN MissingBytes(U64(1 + length - d.len))
        ELSE signed(decode_compact_u64(b, From(d, 1), length))

decode_array(b, d, ctrl) ==
    LET items(l) ==
            IF l.kind # "Ok" THEN l
            ELSE decode_items(b, From(d, l.size), Rounds(l.value, d), <<>>, l.size)
    IN  items(decode_length(b, d, ctrl))

decode_object(b, d, ctrl) ==
    LET entries(l) ==
            IF l.kind # "Ok" THEN l
            ELSE decode_entries(b, From(d, l.size), Rounds(l.value, d), EmptyMap, l.size)
    IN  entries(decode_length(b, d, ctrl))

decode_alias(b, d, ctrl) ==
    LET alias(r) == IF r.kind # "Ok" THEN r ELSE Ok(Alias(r.value), r.size)
    IN  alias(decode_alias_id(b, d, ctrl))

decode(b, d) ==
    LET arm(ctrl, data_type) ==
            CASE data_type = "none" -> Err("UnknownDataType", U64(ctrl \div 32))
              [] data_type = "Special" -> decode_special(b, d, ctrl)
              [] data_type = "Integer" -> decode_integer(b, d, ctrl)
              [] data_type = "Float" -> decode_float(b, d)
              [] data_type = "String" -> decode_string(b, d, ctrl)
              [] data_type = "Array" -> decode_array(b, d, ctrl)
              [] data_type = "Object" -> decode_object(b, d, ctrl)
              [] data_type = "Alias" -> decode_alias(b, d, ctrl)
    IN  IF d.len = 0 THEN MissingBytes(U64(1))
        ELSE IF ~Mapped(d, 1) THEN Fault
        ELSE arm(d.mem[1], DataType_from(d.mem[1] \div 32))

\* the loop of the Array arm
decode_items(b, data_ref, rounds, list, tot_size) ==
    LET push(r) ==
            IF r.kind # "Ok" THEN r
            ELSE Unchecked(b, Inside(data_ref, r.size),
                           decode_items(b, From(data_ref, r.size), rounds - 1,
                                        Append(list, r.value), tot_size + r.size))
    IN  IF rounds = 0 THEN Ok(Array(list), tot_size)
        ELSE push(decode(b, data_ref))

\* the loop of the Object arm
decode_entries(b, data_ref, rounds, map, tot_size) ==
    LET insert(k, k_length, key, after_key, r) ==
            IF r.kind # "Ok" THEN r
            ELSE Unchecked(b, Inside(after_key, r.size),
                           decode_entries(b, From(after_key, r.size), rounds - 1,
                                          Insert(map, key, r.value),
                                          tot_size + k.size + k_length + r.size))
        value(k, k_length, key, after_key) ==
            IF ~Utf8Valid(key) THEN Err("BadUtf8", <<>>)
            ELSE insert(k, k_length, key, after_key, decode(b, after_key))
        key(k, after_len, k_length) ==
            IF ~Mapped(after_len, k_length) THEN Fault
            ELSE value(k, k_length, SubSeq(after_len.mem, 1, k_length),
                       From(after_len, k_length))
        entry(k, after_len) ==
            IF Lt(LenU64(after_len), k.value)
            THEN MissingBytes(Sub(k.value, LenU64(after_len)))
            ELSE IF ~Fits31(k.value) THEN Fault
            ELSE key(k, after_len, ToNat(k.value))
        keyed(k) == IF k.kind # "Ok" THEN k ELSE entry(k, From(data_ref, k.size))
    IN  IF rounds = 0 THEN Ok(Object(map), tot_size)
        ELSE keyed(varint_field(b, data_ref))

----------------------------------------------------------------------------
(* serde_json::Value and serde_json::Number, as the bridge uses them *)

\* Number is PosInt(u64), NegInt(i64, always negative) or Float(finite f64);
\* an i64 is its 64 two's complement bits
PosInt(x) == [N |-> "PosInt", bits |-> x]
NegInt(x) == [N |-> "NegInt", bits |-> x]
NFloat(f) == [N |-> "Float", bits |-> f]

JNull == [json |-> "Null"]
JBool(b) == [json |-> "Bool", b |-> b]
JNumber(num) == [json |-> "Number", num |-> num]
JString(s) == [json |-> "String", s |-> s]
JArray(list) == [json |-> "Array", list |-> list]
JObject(map) == [json |-> "Object", map |-> map]

I64_MIN == Pow2(63)
IsNegative(x) == x[U64_BITS] = 1
\* f64::is_finite: the exponent is not all ones
IsFinite(f) == \E i \in 53..63 : f[i] = 0

\* Number::from(i64)
Number_from_i64(x) == IF IsNegative(x) THEN NegInt(x) ELSE PosInt(x)
\* Number::as_u64, Number::as_i64: "none" or the number
as_u64(num) == IF num.N = "PosInt" THEN num.bits ELSE "none"
as_i64(num) ==
    CASE num.N = "PosInt" -> IF IsNegative(num.bits) THEN "none" ELSE num.bits
      [] num.N = "NegInt" -> num.bits
      [] OTHER -> "none"

Some(v) == [kind |-> "Ok", value |-> v]

----------------------------------------------------------------------------
(* src/encoded_data.rs: the JSON bridge *)

\* impl From<serde_json::Value> for EncodedData
RECURSIVE from(_, _)
from(b, v) ==
    CASE v.json = "Null" -> Some(SpecialNull)
      [] v.json = "Bool" -> Some(Bool(v.b))
      [] v.json = "Number" ->
           IF v.num.N = "PosInt" THEN Some(Positive(as_u64(v.num)))
           ELSE IF v.num.N = "NegInt"
           THEN Overflow(b, as_i64(v.num) = I64_MIN,
                         Some(Negative(Sub(U64(0), as_i64(v.num)))))
           ELSE Some(Float(v.num.bits))
      [] v.json = "String" -> Some(String(v.s))
      [] v.json = "Array" ->
           LET items == [i \in 1..Len(v.list) |-> from(b, v.list[i])]
           IN  IF \E i \in 1..Len(v.list) : items[i].kind = "Panic" THEN Panic
               ELSE Some(Array([i \in 1..Len(v.list) |-> items[i].value]))
      [] v.json = "Object" ->
           LET items == [k \in DOMAIN v.map |-> from(b, v.map[k])]
           IN  IF \E k \in DOMAIN v.map : items[k].kind = "Panic" THEN Panic
               ELSE Some(Object([k \in DOMAIN v.map |-> items[k].value]))

\* i64::try_from(u64) fails from 2^63 on
negative_to_json(x) ==
    IF IsNegative(x) THEN Err("NegativeIntegerTooBig", x)
    ELSE Some(JNumber(Number_from_i64(Sub(U64(0), x))))

\* impl TryFrom<EncodedData> for serde_json::Value: the set of results it can
\* return, one for each order in which the HashMaps can be iterated (the
\* first entry that fails gives the error).
RECURSIVE try_from(_), try_from_list(_)
try_from(v) ==
    CASE v.type = "Special" ->
           (CASE v.special = "Null" -> {Some(JNull)}
              [] v.special = "None" -> {Err("UnsupportedNoneDataType", <<>>)}
              [] v.special = "Define" -> {Err("UnsupportedDefineDataType", <<>>)}
              [] v.special = "Forget" -> {Err("UnsupportedForgetDataType", <<>>)})
      [] v.type = "Integer" ->
           (CASE v.integer = "Bool" -> {Some(JBool(v.b))}
              [] v.integer = "Positive" -> {Some(JNumber(PosInt(v.magnitude)))}
              [] v.integer = "Negative" -> {negative_to_json(v.magnitude)})
      [] v.type = "Float" ->
           IF IsFinite(v.f) THEN {Some(JNumber(NFloat(v.f)))}
           ELSE {Err("BadFloat", v.f)}
      [] v.type = "String" -> {Some(JString(v.s))}
      [] v.type = "Array" -> try_from_list(v.list)
      [] v.type = "Object" ->
           LET failing == {k \in DOMAIN v.map : \E r \in try_from(v.map[k]) : r.kind = "Err"}
           IN  IF failing = {}
               THEN {Some(JObject([k \in DOMAIN v.map |->
                                      (CHOOSE r \in try_from(v.map[k]) : TRUE).value]))}
               ELSE UNION {{r \in try_from(v.map[k]) : r.kind = "Err"} : k \in failing}
      [] v.type = "Alias" -> {Err("UnsupportedAliasDataType", <<>>)}

\* collect::<Result<_, _>>() over a Vec: the first error, or all the values
try_from_list(list) ==
    IF list = <<>> THEN {Some(JArray(<<>>))}
    ELSE UNION {IF h.kind = "Err" THEN {h}
                ELSE {IF t.kind = "Err" THEN t
                      ELSE Some(JArray(<<h.value>> \o t.value.list)) :
                      t \in try_from_list(Tail(list))} :
                h \in try_from(Head(list))}

----------------------------------------------------------------------------
(* src/stream_compressor.rs *)

\* encoded_data::STRING_FLAG_LENGTH_SIZE is used by get_cached but defined
\* nowhere in the source; it is taken as the 4 bits of length the header of
\* a String carries
STRING_FLAG_LENGTH_SIZE == 4

CacheEntry_new(index, max_gain) == [index |-> index, nb_use |-> 0, max_gain |-> max_gain]
PotentialCacheEntry_new(max_gain) == [nb_use |-> 0, max_gain |-> max_gain]

StringCache_new == [cache |-> EmptyMap, future_cache |-> EmptyMap]

CachingResult_Some(index) == [kind |-> "Some", index |-> index]
CachingResult_FutureCached == [kind |-> "FutureCached"]
CachingResult_None == [kind |-> "None"]

\* the loop `while s_length > 0 { s_length_size += 1; s_length <<= 7; }`:
\* the shift is to the left, so the loop ends when the last set bit of the
\* 64-bit word has been shifted out
RECURSIVE s_length_size_loop(_, _)
s_length_size_loop(s_length, s_length_size) ==
    IF s_length = U64(0) THEN s_length_size
    ELSE s_length_size_loop(Shl(s_length, 7), s_length_size + 1)

\* `gain` of get_cached for a string of s_len bytes
string_gain(s_len) ==
    s_length_size_loop(Shr(U64(s_len), STRING_FLAG_LENGTH_SIZE), 1) + s_len

\* StringCache::get_cached: the cache after the call and the CachingResult
StringCache_get_cached(strings, s, available_future_cache) ==
    IF s \in DOMAIN strings.cache
    THEN [strings |-> [strings EXCEPT !.cache[s].nb_use = @ + 1],
          found |-> CachingResult_Some(strings.cache[s].index)]
    ELSE IF s \in DOMAIN strings.future_cache
    THEN [strings |-> [strings EXCEPT !.future_cache[s].nb_use = @ + 1],
          found |-> CachingResult_None]
    ELSE IF available_future_cache
    THEN [strings |->
              IF 1 < string_gain(Len(s))
              THEN [strings EXCEPT !.future_cache =
                        Insert(@, s, PotentialCacheEntry_new(string_gain(Len(s)) - 1))]
              ELSE strings,
          found |-> CachingResult_FutureCached]
    ELSE [strings |-> strings, found |-> CachingResult_None]

Cache_new(max_cache, max_future_cache) ==
    [strings |-> StringCache_new,
     available_cache |-> max_cache,
     available_future_cache |-> max_future_cache]

OptionSome(index) == [kind |-> "Some", index |-> index]
OptionNone == [kind |-> "None"]

\* get_cached called with `true` whatever capacity remains
Cache_get_cached_unguarded(b, c, o) ==
    LET matched(r) ==
            CASE r.found.kind = "Some" ->
                   [cache |-> [c EXCEPT !.strings = r.strings],
                    found |-> OptionSome(r.found.index)]
              [] r.found.kind = "None" ->
                   [cache |-> [c EXCEPT !.strings = r.strings], found |-> OptionNone]
              [] r.found.kind = "FutureCached" ->
                   IF c.available_future_cache = 0 /\ b = "debug"
                   THEN [cache |-> [c EXCEPT !.strings = r.strings], found |-> Panic]
                   ELSE [cache |-> [c EXCEPT !.strings = r.strings,
                                             !.available_future_cache = @ - 1],
                         found |-> OptionNone]
    IN  IF o.type = "String"
        THEN matched(StringCache_get_cached(c.strings, o.s, TRUE))
        ELSE [cache |-> c, found |-> OptionNone]

\* Cache::get_cached: the cache after the call and the Option returned.
\* `available_future_cache -= 1` on 0 panics in a debug build and wraps in a
\* release build; -1 stands for the wrapped value.
Cache_get_cached(b, c, o) ==
    LET matched(r) ==
            CASE r.found.kind = "Some" ->
                   [cache |-> [c EXCEPT !.strings = r.strings],
                    found |-> OptionSome(r.found.index)]
              [] r.found.kind = "None" ->
                   [cache |-> [c EXCEPT !.strings = r.strings], found |-> OptionNone]
              [] r.found.kind = "FutureCached" ->
                   IF c.available_future_cache = 0 /\ b = "debug"
                   THEN [cache |-> [c EXCEPT !.strings = r.strings], found |-> Panic]
                   ELSE [cache |-> [c EXCEPT !.strings = r.strings,
                                             !.available_future_cache = @ - 1],
                         found |-> OptionNone]
    IN  IF o.type = "String"
        THEN matched(StringCache_get_cached(c.strings, o.s, c.available_future_cache > 0))
        ELSE [cache |-> c, found |-> OptionNone]

\* StreamCompressor::new
StreamCompressor_new(c) == Cache_new(c.max_cache, c.max_future_cache)

\* StreamCompressor::compress: the bytes it can return
StreamCompressor_compress(o) == encode(o)

----------------------------------------------------------------------------
(* The inputs the operations are run on *)

\* the words within Spread of x (wrapping at 0 and 2^64 - 1)
Around(x) == {Add(x, U64(d)) : d \in 0..Spread} \cup {Sub(x, U64(d)) : d \in 0..Spread}

\* the first and last integers of every varint length, 0 and 2^64 - 1
Numbers == UNION {Around(BASE_VALUE[k]) : k \in 1..(Len(LIMITS) + 1)}

\* the limits of the compact widths, 2^63 and both ends of u64
Magnitudes == UNION {Around(x) : x \in {U64(0), Pow2(8), Pow2(16), Pow2(32), Pow2(63)}}

Text(k) == [i \in 1..k |-> 97 + ((i - 1) % 26)]
StringLengths == {0, 3, 15, 16, 24, 31, 32}
Strings == {Text(k) : k \in StringLengths} \cup {<<195, 169>>}

Ids == Around(U64(0)) \cup Around(U64(16)) \cup Around(U64(24)) \cup {U64(32), U64(200)}

F_1_2 == FromLeBytes(<<51, 51, 51, 51, 51, 51, 243, 63>>)
F_NAN == FromLeBytes(<<0, 0, 0, 0, 0, 0, 248, 127>>)
F_INFINITY == FromLeBytes(<<0, 0, 0, 0, 0, 0, 240, 127>>)
Floats == {U64(0), F_1_2, F_NAN, F_INFINITY}

Leaves ==
    {SpecialNone, SpecialNull, Bool(TRUE), Bool(FALSE)}
    \cup {Forget(x) : x \in Around(U64(0)) \cup Around(Pow2(7))}
    \cup {Positive(x) : x \in Magnitudes}
    \cup {Negative(x) : x \in Magnitudes}
    \cup {Float(f) : f \in Floats}
    \cup {String(t) : t \in Strings}
    \cup {Alias(x) : x \in Ids}

Five == Positive(U64(5))
Abc == String(Text(3))
Key(c) == <<c>>
Map1(k, v) == Insert(EmptyMap, k, v)
Map2(k1, v1, k2, v2) == Insert(Map1(k1, v1), k2, v2)

Arrays ==
    {Array(<<>>), Array(<<SpecialNull, Five, Abc>>),
     Array(<<Float(F_1_2)>>), Array(<<Float(F_1_2), SpecialNull>>),
     Array(<<SpecialNull, Float(F_1_2)>>),
     Array(<<String(Text(16)), Five>>), Array(<<Alias(U64(1))>>),
     Array(<<SpecialNone>>), Array(<<Negative(Pow2(63)), Float(F_NAN)>>),
     Array(<<Array(<<>>), Array(<<Five>>)>>)}
    \cup {Array([i \in 1..k |-> SpecialNull]) : k \in {15, 16, 24}}

Objects ==
    {Object(EmptyMap), Object(Map1(Key(107), SpecialNull)),
     Object(Map2(Key(97), Five, Key(98), Abc)),
     Object(Map1(Key(107), Float(F_1_2))),
     Object(Map2(Key(97), Float(F_1_2), Key(98), SpecialNull)),
     Object(Map2(Key(97), Alias(U64(0)), Key(98), Float(F_INFINITY))),
     Object(Map2(Text(3), Object(Map1(Key(107), SpecialNull)),
                 Key(108), Array(<<SpecialNull, Five>>)))}

Defines == {Define(SpecialNull), Define(Abc), Define(String(Text(16))),
            Define(Array(<<SpecialNull, Five, Abc>>)), Define(Float(F_1_2)),
            Define(Define(Five))}

Values == Leaves \cup Arrays \cup Objects \cup Defines

\* JSON values built from null, booleans, integers, strings, arrays, objects
JsonIntegers ==
    {JNumber(PosInt(x)) : x \in Around(U64(0)) \cup Around(Pow2(63))}
    \cup {JNumber(NegInt(x)) : x \in {Sub(U64(0), U64(d)) : d \in 1..(Spread + 1)}}
    \cup {JNumber(NegInt(Add(I64_MIN, U64(d)))) : d \in 0..Spread}
JsonLeaves ==
    {JNull, JBool(TRUE), JBool(FALSE)} \cup JsonIntegers \cup {JString(t) : t \in Strings}
JsonValues ==
    JsonLeaves
    \cup {JArray(<<>>), JArray(<<JNull, JNumber(PosInt(U64(5))), JString(Text(3))>>),
          JArray(<<JNumber(NegInt(I64_MIN))>>),
          JArray(<<JArray(<<JBool(TRUE)>>), JNumber(NegInt(U64_MAX))>>)}
    \cup {JObject(EmptyMap), JObject(Map1(Key(107), JNull)),
          JObject(Map2(Key(97), JNumber(PosInt(U64(5))), Key(98), JString(Text(3)))),
          JObject(Map1(Key(107), JArray(<<JNumber(NegInt(U64_MAX))>>)))}

\* what may lie in memory behind a buffer, or follow a value in a buffer
RECURSIVE BytesUpTo(_)
BytesUpTo(k) ==
    IF k = 0 THEN {<<>>}
    ELSE BytesUpTo(k - 1) \cup {Append(t, c) : t \in BytesUpTo(k - 1), c \in {97, 255}}
Tails == BytesUpTo(MaxTail)

\* varints of up to 11 bytes: continuation bytes and a last byte
RawVarints ==
    {[i \in 1..k |-> c] \o last :
        k \in 0..(Len(LIMITS) + 2), c \in {128, 255},
        last \in {<<>>, <<0>>, <<1>>, <<2>>, <<127>>}}

\* every header byte, alone and followed by eight bytes
Headers == {<<c>> \o pad : c \in 0..255, pad \in {<<>>, [i \in 1..8 |-> 1]}}

\* wire objects of two entries: an entry is varint(|k|), k, encoded value
Entry(k, e) == varint_encode(U64(Len(k))) \o k \o e
WireObject(k1, e1, k2, e2) ==
    <<data_type_OBJECT * 32 + 2>> \o Entry(k1, e1) \o Entry(k2, e2)
WireKeys == {Key(97), Key(98)}
WireFirst == {<<1>>, <<33, 5>>, <<72, 0, 0, 0, 0, 0, 0, 240, 63>>}
WireSecond == {<<1>>, <<48>>, <<72, 0, 0, 0, 0, 0, 0, 240, 63>>}
WireObjects ==
    {WireObject(k1, e1, k2, e2) :
        k1 \in WireKeys, k2 \in WireKeys, e1 \in WireFirst, e2 \in WireSecond}

RawBuffers == Headers \cup WireObjects

\* what the streaming compressor is made with and given: the empty string,
\* a short string, a string whose length needs a continuation, and a value
\* that is no string
Confs == [max_cache : 0..MaxCache, max_future_cache : 0..MaxFutureCache]
CacheStrings == {Text(0), Text(3), Text(16)}
CacheObjects == {String(t) : t \in CacheStrings} \cup {SpecialNull}

----------------------------------------------------------------------------
(* The operations *)

NoResult == [kind |-> "none"]

Init ==
    /\ build \in {"debug", "release"}
    /\ pc = "idle"
    /\ src = "none"
    /\ n = U64(0)
    /\ object = SpecialNone
    /\ json = JNull
    /\ wire = <<>>
    /\ data = Slice(<<>>)
    /\ result = NoResult
    /\ conf = [max_cache |-> 0, max_future_cache |-> 0]
    /\ cache = StreamCompressor_new(conf)
    /\ before = cache

\* varint::encode(x)
VarintEncode(x) ==
    /\ pc = "idle"
    /\ n' = x
    /\ wire' = varint_encode(x)
    /\ data' = Slice(wire')
    /\ src' = "encode"
    /\ pc' = "varint_encode"
    /\ UNCHANGED <<build, object, json, result, conf, cache, before>>

\* a caller hands varint::decode the bytes it received
VarintInput(bytes, tail) ==
    /\ pc = "idle"
    /\ wire' = bytes
    /\ data' = [mem |-> bytes \o tail, len |-> Len(bytes)]
    /\ src' = "input"
    /\ pc' = "varint_input"
    /\ UNCHANGED <<build, n, object, json, result, conf, cache, before>>

\* varint::decode(data)
VarintDecode ==
    /\ pc \in {"varint_encode", "varint_input"}
    /\ result' = varint_decode(build, data)
    /\ pc' = "varint_decode"
    /\ UNCHANGED <<build, src, n, object, json, wire, data, conf, cache, before>>

\* object.encode()
Encode(o) ==
    /\ pc = "idle"
    /\ object' = o
    /\ wire' \in encode(o)
    /\ data' = Slice(wire')
    /\ src' = "encode"
    /\ pc' = "encode"
    /\ UNCHANGED <<build, n, json, result, conf, cache, before>>

\* the encoded value arrives cut short: the first k bytes, in a buffer that
\* has tail behind it in memory
Truncate(k, tail) ==
    /\ pc = "encode"
    /\ k < Len(wire)
    /\ data' = [mem |-> SubSeq(wire, 1, k) \o tail, len |-> k]
    /\ src' = "truncate"
    /\ pc' = "truncate"
    /\ UNCHANGED <<build, n, object, json, wire, result, conf, cache, before>>

\* the encoded value is followed by further bytes in the buffer
Extend(tail) ==
    /\ pc = "encode"
    /\ tail # <<>>
    /\ data' = Slice(wire \o tail)
    /\ src' = "extend"
    /\ pc' = "extend"
    /\ UNCHANGED <<build, n, object, json, wire, result, conf, cache, before>>

\* a caller hands EncodedData::decode the bytes it received
Input(bytes) ==
    /\ pc = "idle"
    /\ wire' = bytes
    /\ data' = Slice(bytes)
    /\ src' = "input"
    /\ pc' = "input"
    /\ UNCHANGED <<build, n, object, json, result, conf, cache, before>>

\* EncodedData::decode(data)
Decode ==
    /\ pc \in {"encode", "truncate", "extend", "input"}
    /\ result' = decode(build, data)
    /\ pc' = "decode"
    /\ UNCHANGED <<build, src, n, object, json, wire, data, conf, cache, before>>

\* serde_json::Value::try_from(o)
ToJson(o) ==
    /\ pc = "idle"
    /\ object' = o
    /\ result' \in try_from(o)
    /\ src' = "object"
    /\ pc' = "to_json"
    /\ UNCHANGED <<build, n, json, wire, data, conf, cache, before>>

\* EncodedData::from(j)
FromJson(j) ==
    /\ pc = "idle"
    /\ json' = j
    /\ result' = from(build, j)
    /\ src' = "json"
    /\ pc' = "from_json"
    /\ UNCHANGED <<build, n, object, wire, data, conf, cache, before>>

\* the value made from JSON is converted back: try_from(from(j))
BackToJson ==
    /\ pc = "from_json"
    /\ result.kind = "Ok"
    /\ object' = result.value
    /\ result' \in try_from(result.value)
    /\ pc' = "back_to_json"
    /\ UNCHANGED <<build, src, n, json, wire, data, conf, cache, before>>

\* StreamCompressor::new(c)
New(c) ==
    /\ pc = "idle"
    /\ conf' = c
    /\ cache' = StreamCompressor_new(c)
    /\ before' = cache'
    /\ src' = "stream"
    /\ pc' = "new"
    /\ UNCHANGED <<build, n, object, json, wire, data, result>>

\* how often the cache has counted the string of o
Uses(c, o) ==
    IF o.type # "String" THEN 0
    ELSE IF o.s \in DOMAIN c.strings.cache THEN c.strings.cache[o.s].nb_use
    ELSE IF o.s \in DOMAIN c.strings.future_cache THEN c.strings.future_cache[o.s].nb_use
    ELSE 0

\* self.cache.get_cached(o)
GetCached(o) ==
    LET call(r) ==
            /\ cache' = r.cache
            /\ result' = r.found
    IN  /\ pc \in {"new", "get_cached", "compress"}
        /\ result.kind # "Panic"
        /\ Uses(cache, o) < MaxUse
        /\ before' = cache
        /\ call(Cache_get_cached(build, cache, o))
        /\ object' = o
        /\ pc' = "get_cached"
        /\ UNCHANGED <<build, src, n, json, wire, data, conf>>

\* StreamCompressor::compress(o)
Compress(o) ==
    /\ pc \in {"new", "get_cached", "compress"}
    /\ result.kind # "Panic"
    /\ before' = cache
    /\ object' = o
    /\ wire' \in StreamCompressor_compress(o)
    /\ result' = NoResult
    /\ pc' = "compress"
    /\ UNCHANGED <<build, src, n, json, data, conf, cache>>

Next ==
    \/ \E x \in Numbers : VarintEncode(x)
    \/ \E bytes \in RawVarints, tail \in Tails : VarintInput(bytes, tail)
    \/ VarintDecode
    \/ \E o \in Values : Encode(o)
    \/ \E k \in 0..Len(wire), tail \in Tails : Truncate(k, tail)
    \/ \E tail \in Tails : Extend(tail)
    \/ \E bytes \in RawBuffers : Input(bytes)
    \/ Decode
    \/ \E o \in Values : ToJson(o)
    \/ \E j \in JsonValues : FromJson(j)
    \/ BackToJson
    \/ \E c \in Confs : New(c)
    \/ \E o \in CacheObjects : GetCached(o)
    \/ \E o \in CacheObjects : Compress(o)

Spec == Init /\ [][Next]_vars

\* the owner of a StreamCompressor goes on looking strings up and compressing
\* values as long as it can
FairSpec ==
    /\ Spec
    /\ WF_vars(\E o \in CacheObjects : GetCached(o))
    /\ WF_vars(\E o \in CacheObjects : Compress(o))

----------------------------------------------------------------------------
(* What the claims speak of *)

\* the 1-based index of the first of the first ten bytes that has no
\* continuation bit, 0 if there is none
VarintEnd(bytes) ==
    LET ends == {i \in 1..Min(Len(bytes), Len(LIMITS) + 1) : bytes[i] < 128}
    IN  IF ends = {} THEN 0 ELSE CHOOSE i \in ends : \A j \in ends : i <= j

\* the integer a varint of `last` bytes stands for, in 72 bits: the 7-bit
\* payloads of the bytes, lowest first, plus the base value of that length
VarintExact(bytes, last) ==
    LET payload == [i \in 1..72 |->
                       IF (i - 1) \div 7 < last
                       THEN ((bytes[((i - 1) \div 7) + 1] % 128) \div (2 ^ ((i - 1) % 7))) % 2
                       ELSE 0]
    IN  Add(payload, Ext(BASE_VALUE[last], 72))

\* the values the JSON bridge is said to refuse
RECURSIVE NoJson(_)
NoJson(v) ==
    CASE v.type = "Special" -> v.special # "Null"
      [] v.type = "Integer" -> v.integer = "Negative" /\ Lt(Pow2(63), v.magnitude)
      [] v.type = "Float" -> ~IsFinite(v.f)
      [] v.type = "String" -> FALSE
      [] v.type = "Array" -> \E i \in 1..Len(v.list) : NoJson(v.list[i])
      [] v.type = "Object" -> \E k \in DOMAIN v.map : NoJson(v.map[k])
      [] v.type = "Alias" -> TRUE

----------------------------------------------------------------------------
(* The claims *)

\* C1: for every value v, decode(v.encode()) returns Ok((v, n)) with n the
\* length of v.encode(): for every String, Array and Object length, every
\* Alias id, and for values nested in Array, Object and Define.
C1_DecodeInvertsEncode ==
    (pc = "decode" /\ src = "encode") => result = Ok(object, Len(wire))

\* C2: for every u64 n, varint::decode(varint::encode(n)) returns Ok((n, k))
\* with k the number of bytes of varint::encode(n), and 1 <= k <= 10.
C2_VarintDecodeInvertsEncode ==
    (pc = "varint_decode" /\ src = "encode") =>
        /\ result = Ok(n, Len(wire))
        /\ Len(wire) \in 1..10

\* the largest u64 went through encode and decode and took ten bytes
C2_Witness ==
    /\ pc = "varint_decode" /\ src = "encode"
    /\ n = U64_MAX
    /\ result = Ok(U64_MAX, 10)

\* C3: varint::encode is non-redundant: different integers have different
\* encodings; the encoding of n has k bytes exactly when n lies between the
\* k-th base value and the next one, so the length never decreases as n
\* grows and grows by one at each base value; every byte but the last has
\* its high bit set and the last has it clear.
C3_VarintNonRedundant ==
    pc = "varint_encode" =>
        /\ \A m \in Numbers : m # n => varint_encode(m) # wire
        /\ \A k \in 1..(Len(LIMITS) + 1) :
              Len(wire) = k <=>
                  /\ Le(BASE_VALUE[k], n)
                  /\ k <= Len(LIMITS) => Lt(n, Add(BASE_VALUE[k], LIMITS[k]))
        /\ \A m \in Numbers : Lt(m, n) => Len(varint_encode(m)) <= Len(wire)
        /\ \A k \in 2..(Len(LIMITS) + 1) :
              n = BASE_VALUE[k] =>
                  Len(varint_encode(Sub(n, U64(1)))) + 1 = Len(wire)
        /\ \A i \in 1..(Len(wire) - 1) : wire[i] >= 128
        /\ wire[Len(wire)] < 128

\* the first integer of three bytes was encoded: 80 80 00
C3_Witness ==
    /\ pc = "varint_encode"
    /\ n = BASE_VALUE[3]
    /\ wire = <<128, 128, 0>>

\* C4: decode never reads past the consumed count it reports: if decode(e)
\* returns Ok((v, n)), decode of e followed by any trailing bytes returns
\* Ok((v, n)) too, for every data type.
C4_TrailingBytesIgnored ==
    (pc = "decode" /\ src = "extend") =>
        LET alone == decode(build, Slice(wire))
        IN  alone.kind = "Ok" => result = alone

\* C5: every field read checks the remaining length: decode of a proper
\* prefix of v.encode() returns Err(MissingBytes(k)); it never reads outside
\* the buffer, panics or returns a value.
C5_PrefixMissingBytes ==
    (pc = "decode" /\ src = "truncate") =>
        /\ result.kind = "Err"
        /\ result.error = "MissingBytes"

\* C6: decoding an Object whose wire entries hold the same key twice is
\* rejected with a decode error; with distinct keys it succeeds and yields
\* the same Object whatever the order of the entries.
C6_DuplicateKeyRejected ==
    (pc = "decode" /\ src = "input") =>
        \A k1 \in WireKeys, k2 \in WireKeys, e1 \in WireFirst, e2 \in WireSecond :
            wire = WireObject(k1, e1, k2, e2) =>
                IF k1 = k2 THEN result.kind = "Err"
                ELSE result = Ok(Object(Map2(k1, decode(build, Slice(e1)).value,
                                             k2, decode(build, Slice(e2)).value)),
                                 Len(wire))

\* C6 as amended: an Object whose wire entries hold the same key twice is
\* not rejected: the entries are inserted in wire order, so the value of the
\* last entry with the key is kept and the consumed count covers every
\* entry; decode fails only where decoding an entry's value, in its place in
\* the buffer, fails, and then as that decoding does.  With distinct keys
\* the Object holds every entry, whatever their order on the wire.
C6_LastWriteWins ==
    (pc = "decode" /\ src = "input") =>
        \A k1 \in WireKeys, k2 \in WireKeys, e1 \in WireFirst, e2 \in WireSecond :
            wire = WireObject(k1, e1, k2, e2) =>
                LET v1 == decode(build, From(Slice(wire), 3))
                    v2 == decode(build, From(Slice(wire), 5 + Len(e1)))
                IN  IF v1.kind # "Ok" THEN result = v1
                    ELSE IF v2.kind # "Ok" THEN result = v2
                    ELSE result = Ok(Object([k \in {k1, k2} |->
                                               IF k = k2 THEN v2.value ELSE v1.value]),
                                     Len(wire))

\* the key "a" came twice, with Null and then with true, and true was kept
C6_Witness ==
    /\ pc = "decode" /\ src = "input"
    /\ wire = WireObject(Key(97), <<1>>, Key(97), <<48>>)
    /\ result = Ok(Object(Map1(Key(97), Bool(TRUE))), 7)

\* C7: decode returns Err(UnknownDataType(t)) if and only if the top three
\* bits t of the header byte are not in 0..6, that is only for t = 7.
C7_UnknownDataTypeOnlySeven ==
    (pc = "decode" /\ src = "input" /\ wire # <<>>) =>
        LET t == wire[1] \div 32
        IN  result = Err("UnknownDataType", U64(t)) <=> t \notin 0..6

\* C8: varint::decode reads at most 10 bytes; it fails with MissingBytes if
\* the input ends on a byte with the continuation bit, with ValueTooBig if
\* the 10th byte read still has it or if payload plus base offset exceeds
\* the u64 range; otherwise it returns that sum: it never wraps, drops
\* payload bits or overflows.  (An input of exactly 10 continuation bytes
\* meets both failure conditions; either error is taken as claimed.)
C8_VarintDecodeChecked ==
    (pc = "varint_decode" /\ src = "input") =>
        LET last == VarintEnd(wire)
            exact == VarintExact(wire, last)
        IN  IF last = 0
            THEN /\ result.kind = "Err"
                 /\ Len(wire) < Len(LIMITS) + 1 => result.error = "MissingBytes"
                 /\ Len(wire) > Len(LIMITS) + 1 => result.error = "ValueTooBig"
            ELSE IF \E i \in (U64_BITS + 1)..Len(exact) : exact[i] = 1
            THEN result = Err("ValueTooBig", 0)
            ELSE result = Ok(Ext(exact, U64_BITS), last)

\* C9: try_from fails exactly for None, Define, Forget, Alias, Negative(n)
\* with n > 2^63 and non-finite Floats, also nested in an Array or Object;
\* Negative(n) converts for every n <= 2^63 and fails with
\* NegativeIntegerTooBig(n) only for n > 2^63.
C9_ToJsonFailsExactly ==
    pc = "to_json" =>
        /\ result.kind = "Err" <=> NoJson(object)
        /\ (object.type = "Integer" /\ object.integer = "Negative") =>
              (result = Err("NegativeIntegerTooBig", object.magnitude)
                  <=> Lt(Pow2(63), object.magnitude))

\* C10: for every JSON value j built from null, booleans, integers of
\* i64::MIN..=u64::MAX, strings, arrays and objects, from(j) is defined,
\* maps positive integers to Positive(n) and negative ones to Negative(|n|),
\* and try_from(from(j)) succeeds and equals j.
C10_JsonRoundTrip ==
    /\ pc = "from_json" =>
          /\ result.kind = "Ok"
          /\ (json.json = "Number" /\ json.num.N = "PosInt") =>
                result.value = Positive(json.num.bits)
          /\ (json.json = "Number" /\ json.num.N = "NegInt") =>
                result.value = Negative(Sub(U64(0), json.num.bits))
    /\ pc = "back_to_json" => result = Some(json)

\* the length or id that the 5-bit field of the header of o carries
FieldValue(o) ==
    CASE o.type = "String" -> U64(Len(o.s))
      [] o.type = "Array" -> U64(Len(o.list))
      [] o.type = "Object" -> U64(Cardinality(DOMAIN o.map))
      [] o.type = "Alias" -> o.id

\* the header byte and continuation the overflow rule gives the value L
FieldBytes(tag, L) ==
    IF Lt(L, U64(16)) THEN <<tag * 32 + ToNat(SubSeq(L, 1, 4))>>
    ELSE <<tag * 32 + 16 + ToNat(SubSeq(Sub(L, U64(16)), 1, 4))>>
         \o varint_encode(Shr(Sub(L, U64(16)), 4))

\* C12: the 5-bit length-or-id field follows the overflow rule for every
\* value L: L < 16 is stored as L with no continuation; otherwise the field
\* is 16 | ((L - 16) & 15) followed by varint((L - 16) >> 4); and the
\* decoder rebuilds exactly L from the field and its continuation.
C12_HeaderFieldRule ==
    (pc = "encode" /\ object.type \in {"String", "Array", "Object", "Alias"}) =>
        /\ SubSeq(wire, 1, Len(FieldBytes(wire[1] \div 32, FieldValue(object))))
               = FieldBytes(wire[1] \div 32, FieldValue(object))
        /\ (IF object.type = "Alias" THEN decode_alias_id(build, Slice(wire), wire[1])
            ELSE decode_length(build, Slice(wire), wire[1]))
               = Ok(FieldValue(object),
                    Len(FieldBytes(wire[1] \div 32, FieldValue(object))))

\* C13: for Integer::Positive(n) the width w that encode writes in the low
\* 4 bits of the header is one of 1, 2, 4, 8 with n < 2^(8w), and for w in
\* {1, 2, 4} also n >= 2^(8(w-1)).
C13_WidthNonRedundant ==
    (pc = "encode" /\ object.type = "Integer" /\ object.integer = "Positive") =>
        /\ wire[1] % 16 \in {1, 2, 4, 8}
        /\ Len(wire) = 1 + (wire[1] % 16)
        /\ wire[1] % 16 < 8 => Lt(object.magnitude, Pow2(8 * (wire[1] % 16)))
        /\ wire[1] % 16 \in {1, 2, 4} =>
               Le(Pow2(8 * ((wire[1] % 16) - 1)), object.magnitude)

\* C13 as amended: the width w is the least of the widths 1, 2, 4, 8 with
\* n < 2^(8w): n >= 2^8 for w = 2, n >= 2^16 for w = 4, n >= 2^32 for w = 8,
\* and no lower bound for w = 1.
C13_WidthLeastOffered ==
    (pc = "encode" /\ object.type = "Integer" /\ object.integer = "Positive") =>
        /\ wire[1] % 16 \in {1, 2, 4, 8}
        /\ Len(wire) = 1 + (wire[1] % 16)
        /\ wire[1] % 16 < 8 => Lt(object.magnitude, Pow2(8 * (wire[1] % 16)))
        /\ \A v \in {1, 2, 4} : v < wire[1] % 16 => Le(Pow2(8 * v), object.magnitude)

\* 2^16, below 2^24, was encoded in four bytes
C13_Witness ==
    /\ pc = "encode"
    /\ object = Positive(Pow2(16))
    /\ wire = <<data_type_INTEGER * 32 + 4, 0, 0, 1, 0>>

\* C14: the decoder accepts every Integer width w in 1..8, the reserved
\* widths 3, 5, 6 and 7 included: an Integer header of width w followed by at
\* least w bytes decodes to the little-endian value of exactly the next w
\* bytes, with the sign of bit 4, and consumed = 1 + w.
C14_EveryWidthAccepted ==
    (pc = "decode" /\ src = "input" /\ wire[1] \div 32 = data_type_INTEGER
        /\ wire[1] % 16 \in 1..8 /\ Len(wire) >= 1 + (wire[1] % 16)) =>
        result = Ok(IF (wire[1] \div 16) % 2 = 1
                    THEN Negative(FromLeBytes(SubSeq(wire, 2, 1 + (wire[1] % 16))))
                    ELSE Positive(FromLeBytes(SubSeq(wire, 2, 1 + (wire[1] % 16)))),
                    1 + (wire[1] % 16))

\* the string of o is in neither cache of c
Untracked(c, o) ==
    /\ o.type = "String"
    /\ o.s \notin DOMAIN c.strings.cache
    /\ o.s \notin DOMAIN c.strings.future_cache

\* the bytes the literal String record of s spends on its header and the
\* continuation of its length: len(encode(String(s))) - |s|
HeaderSavings(s) == Len(CHOOSE e \in encode(String(s)) : TRUE) - Len(s)

\* the estimated gain of aliasing s: an Alias record costs at least 1 byte
EstimatedGain(s) == HeaderSavings(s) + Len(s) - 1

\* C11: a string admitted to the future cache and used again is, while
\* active-cache capacity remains, eventually promoted to the active cache;
\* from then on every occurrence of it is looked up as Some(index) and
\* compressed to Alias(index), and the indices of the active cache are dense
\* from 0.
C11_PromotedWhenUsedAgain ==
    /\ \A s \in CacheStrings :
          (/\ s \in DOMAIN cache.strings.future_cache
           /\ cache.strings.future_cache[s].nb_use >= 1
           /\ cache.available_cache > 0)
              ~> (s \in DOMAIN cache.strings.cache)
    /\ [](\A s \in DOMAIN cache.strings.cache :
            /\ (pc = "get_cached" /\ object = String(s)) =>
                   result = OptionSome(cache.strings.cache[s].index)
            /\ (pc = "compress" /\ object = String(s)) =>
                   wire \in encode(Alias(U64(cache.strings.cache[s].index))))
    /\ []({cache.strings.cache[s].index : s \in DOMAIN cache.strings.cache}
             = 0..(Cardinality(DOMAIN cache.strings.cache) - 1))

\* C15: get_cached for a string in neither cache: if future-cache capacity
\* remains and the estimated gain is > 0 the string enters the future cache
\* with use count 0 and the remaining future capacity drops by one;
\* otherwise the whole cache state is left unchanged; no index is returned.
C15_UntrackedStringAdmission ==
    (pc = "get_cached" /\ Untracked(before, object)) =>
        /\ result = OptionNone
        /\ IF before.available_future_cache > 0 /\ EstimatedGain(object.s) > 0
           THEN /\ DOMAIN cache.strings.future_cache
                       = DOMAIN before.strings.future_cache \cup {object.s}
                /\ cache.strings.future_cache[object.s].nb_use = 0
                /\ \A s \in DOMAIN before.strings.future_cache :
                       cache.strings.future_cache[s] = before.strings.future_cache[s]
                /\ cache.strings.cache = before.strings.cache
                /\ cache.available_cache = before.available_cache
                /\ cache.available_future_cache = before.available_future_cache - 1
           ELSE cache = before

\* C16: the max_gain recorded when a string is admitted to the future cache
\* is header_savings + |s| - 1, for every length |s|, those of 16 and more
\* that need a continuation included.
C16_RecordedGain ==
    (/\ pc = "get_cached" /\ Untracked(before, object)
     /\ object.s \in DOMAIN cache.strings.future_cache) =>
        cache.strings.future_cache[object.s].max_gain = EstimatedGain(object.s)

\* C17: after any sequence of get_cached calls on a Cache made with
\* new(max_cache, max_future_cache) the future cache has at most
\* max_future_cache entries, available_future_cache has not gone below 0,
\* and no string is in both the active and the future cache.
C17_FutureCacheBounded ==
    /\ Cardinality(DOMAIN cache.strings.future_cache) <= conf.max_future_cache
    /\ cache.available_future_cache >= 0
    /\ result.kind # "Panic" \/ pc # "get_cached"
    /\ DOMAIN cache.strings.cache \cap DOMAIN cache.strings.future_cache = {}

\* with room for one string, one was admitted and the next one was refused
C17_Witness ==
    /\ pc = "get_cached"
    /\ conf.max_future_cache = 1
    /\ Cardinality(DOMAIN before.strings.future_cache) = 1
    /\ before.available_future_cache = 0
    /\ Untracked(before, object)
    /\ object.s # <<>>
    /\ cache = before

====
